---------------------------- MODULE Spec2Model ----------------------------
(***************************************************************************)
(* A model of ipm, the IP package manager (src/ipm/common.py and           *)
(* src/ipm/manage.py): the remote catalog (Verified_IPs.json), the         *)
(* RemoteIP and LocalIP lookup objects, the two listing commands, and the  *)
(* local registry (Installed_IPs.json).                                    *)
(*                                                                         *)
(* Every command is one action.  The variables call, resp, outcome, table  *)
(* and events record the last command: its arguments, the HTTP response it *)
(* got, how it ended, the rows it printed and the I/O it did, in order.    *)
(***************************************************************************)
EXTENDS Naturals, Sequences, FiniteSets

VARIABLES
    catalog,     \* the JSON document behind REMOTE_VERIFIED_IPS_URL
    remote_ip,   \* the attributes of a RemoteIP object
    registry,    \* the registry file LocalIP reads (Installed_IPs.json)
    local_ip,    \* the attributes of the LocalIP object of the last lookup
    call,        \* the last command and its arguments
    resp,        \* the response of the last requests.get
    outcome,     \* how the last command ended
    table,       \* the rows the last command added to its table
    events,      \* the I/O steps of the last command, in order
    removed      \* history: the coordinates the last successful uninstall
                 \* removed, until they are installed again

vars == <<catalog, remote_ip, registry, local_ip, call, resp, outcome, table, events, removed>>

---------------------------------------------------------------------------
(* Bounds of the model *)

\* entries in the whole catalog
MaxEntries == 2

\* records in the whole registry
MaxRecords == 2

---------------------------------------------------------------------------
(* Values *)

\* The categories of the catalog, in the iteration order of the JSON object.
CategoryKeys == <<"digital", "analog">>

Names == {"spm", "SPM"}

Technologies == {"sky130", "gf180mcu"}

\* What a caller may pass as technology: the two real ones and one that is not.
RequestedTechnologies == Technologies \cup {"tsmc65"}

Versions == {"1.9", "1.10"}

\* The i-th release of an IP was published at ReleaseDates[i].
ReleaseDates == <<"2023-01-01T00:00:00Z", "2023-02-01T00:00:00Z", "2023-03-01T00:00:00Z">>

IpRoots == {"/home/u/.ipm", "/work/ip"}

\* A release list: versions in the order they were published, none twice.
RECURSIVE NoRepeat(_)
NoRepeat(s) ==
    IF Len(s) <= 1 THEN TRUE
    ELSE /\ \A i \in 2..Len(s) : s[i] # s[1]
         /\ NoRepeat(Tail(s))

\* Every IP has published each version once, in some order.
ReleaseLists ==
    LET vs == [1..Cardinality(Versions) -> Versions]
    IN {[i \in 1..Len(s) |-> [version |-> s[i], date |-> ReleaseDates[i]]] :
            s \in {q \in vs : NoRepeat(q)}}

\* An entry of the catalog: the fields of the remote catalog format.
Descriptor(n, t, rel) ==
    [name |-> n, repo |-> "github.com/efabless/ip", author |-> "efabless",
     email |-> "ip@efabless.com", type |-> "hard",
     category |-> IF n = "spm" THEN "digital" ELSE "analog",
     status |-> "verified", width |-> "0.1", height |-> "0.2",
     technology |-> t, release |-> rel]

Entries == {Descriptor(n, t, rel) : n \in Names, t \in Technologies, rel \in ReleaseLists}

EmptyCatalog == [i \in 1..Len(CategoryKeys) |-> [key |-> CategoryKeys[i], values |-> <<>>]]

RECURSIVE CountEntries(_)
CountEntries(items) ==
    IF items = <<>> THEN 0
    ELSE Len(Head(items).values) + CountEntries(Tail(items))

\* What a fetch may come back with: the status code, and whether the body is a
\* JSON document (then it is the catalog) or not.  A success carries the
\* catalog, a 404 the server's plain "404: Not Found", and a server error
\* either an error page or the document a cache still holds.
Responses ==
    {[status_code |-> 200, is_json |-> TRUE], [status_code |-> 404, is_json |-> FALSE],
     [status_code |-> 500, is_json |-> TRUE], [status_code |-> 500, is_json |-> FALSE]}

NoResponse == [status_code |-> 0, is_json |-> FALSE]

NoCoordinates == [name |-> "", technology |-> "", ip_root |-> ""]

NoCall == [op |-> "idle", name |-> "", technology |-> "", ip_root |-> "", version |-> ""]

---------------------------------------------------------------------------
(* RemoteIP *)

RemoteAttrs == {"name", "repo", "author", "email", "type", "category", "status",
                "width", "height", "technology", "release", "versions", "dates"}

\* A RemoteIP object after __init__: no descriptor attribute is set.
NoRemoteAttrs ==
    [attrs |-> {}, name |-> "", repo |-> "", author |-> "", email |-> "",
     type |-> "", category |-> "", status |-> "", width |-> "", height |-> "",
     technology |-> "", release |-> <<>>, versions |-> <<>>, dates |-> <<>>]

\* The assignments of lines 65-80 for one matching entry.
AssignRemote(value) ==
    [attrs |-> RemoteAttrs,
     name |-> value.name, repo |-> value.repo, author |-> value.author,
     email |-> value.email, type |-> value.type, category |-> value.category,
     status |-> value.status, width |-> value.width, height |-> value.height,
     technology |-> value.technology, release |-> value.release,
     versions |-> [i \in 1..Len(value.release) |-> value.release[i].version],
     dates |-> [i \in 1..Len(value.release) |-> value.release[i].date]]

\* ScanValues with the slip of clearing the attributes at an entry that does
\* not match.
ScanValuesClearing(values, name, technology, obj) ==
    IF values = <<>> THEN obj
    ELSE IF Head(values).name = name /\ Head(values).technology = technology
         THEN AssignRemote(Head(values))
         ELSE NoRemoteAttrs

\* The inner loop: every entry of one category is visited, and each match
\* assigns the attributes again.
RECURSIVE ScanValues(_, _, _, _)
ScanValues(values, name, technology, obj) ==
    IF values = <<>> THEN obj
    ELSE ScanValues(Tail(values), name, technology,
                    IF Head(values).name = name /\ Head(values).technology = technology
                    THEN AssignRemote(Head(values))
                    ELSE obj)

\* The outer loop over data.items().
RECURSIVE ScanItems(_, _, _, _)
ScanItems(items, name, technology, obj) ==
    IF items = <<>> THEN obj
    ELSE ScanItems(Tail(items), name, technology,
                   ScanValues(Head(items).values, name, technology, obj))

\* RemoteIP.get_ip_info(name, technology)
RemoteGetIpInfo(name, technology, r) ==
    /\ call' = [NoCall EXCEPT !.op = "RemoteIP.get_ip_info", !.name = name,
                              !.technology = technology]
    /\ resp' = r
    /\ IF r.is_json
       THEN /\ remote_ip' = ScanItems(catalog, name, technology, remote_ip)
            /\ outcome' = "returned"
       ELSE /\ remote_ip' = remote_ip
            /\ outcome' = "JSONDecodeError"
    /\ events' = <<"fetch", "parse">>
    /\ table' = <<>>
    /\ UNCHANGED <<catalog, registry, local_ip, removed>>

\* RemoteIP.get_all_ips(): the data it returns, or how it ends otherwise.
GetAllIps(r) ==
    IF r.status_code = 404 THEN [outcome |-> "exit(1)", events |-> <<"fetch", "print:couldn't connect to server">>, data |-> <<>>]
    ELSE IF ~r.is_json THEN [outcome |-> "JSONDecodeError", events |-> <<"fetch", "parse">>, data |-> <<>>]
    ELSE [outcome |-> "returned", events |-> <<"fetch", "parse">>, data |-> catalog]

---------------------------------------------------------------------------
(* The listing commands *)

Row(key, value, rel) ==
    [category |-> key, name |-> value.name, release |-> rel.version,
     author |-> value.author, date |-> rel.date, type |-> value.type,
     status |-> value.status, width |-> value.width, height |-> value.height,
     technology |-> value.technology]

\* list_remote_ips, lines 133-147: one row per entry, with release[-1].  An
\* entry is a non-empty object, so the test "if value" of line 135 passes, and
\* it has at least one release.
RECURSIVE LatestRows(_, _)
LatestRows(key, values) ==
    IF values = <<>> THEN <<>>
    ELSE <<Row(key, Head(values), Head(values).release[Len(Head(values).release)])>>
         \o LatestRows(key, Tail(values))

RECURSIVE ListRows(_)
ListRows(items) ==
    IF items = <<>> THEN <<>>
    ELSE LatestRows(Head(items).key, Head(items).values) \o ListRows(Tail(items))

\* InfoValueRows with the slip of showing, as list_remote_ips does, only the
\* last release of an entry.
RECURSIVE InfoValueRowsLatest(_, _, _)
InfoValueRowsLatest(key, values, ip) ==
    IF values = <<>> THEN <<>>
    ELSE (IF Head(values).name = ip
          THEN <<Row(key, Head(values), Head(values).release[Len(Head(values).release)])>>
          ELSE <<>>)
         \o InfoValueRowsLatest(key, Tail(values), ip)

\* list_remote_ip_info, lines 168-183: one row per release of every entry named ip.
RECURSIVE InfoValueRows(_, _, _)
InfoValueRows(key, values, ip) ==
    IF values = <<>> THEN <<>>
    ELSE (IF Head(values).name = ip
          THEN [i \in 1..Len(Head(values).release) |->
                    Row(key, Head(values), Head(values).release[i])]
          ELSE <<>>)
         \o InfoValueRows(key, Tail(values), ip)

RECURSIVE InfoRows(_, _)
InfoRows(items, ip) ==
    IF items = <<>> THEN <<>>
    ELSE InfoValueRows(Head(items).key, Head(items).values, ip) \o InfoRows(Tail(items), ip)

\* ipm ls-remote
LsRemoteCmd(r) ==
    \E got \in {GetAllIps(r)} :
    /\ call' = [NoCall EXCEPT !.op = "ls-remote"]
    /\ resp' = r
    /\ outcome' = got.outcome
    /\ events' = <<"print:Verified IPs:">> \o got.events
    /\ table' = IF got.outcome = "returned" THEN ListRows(got.data) ELSE <<>>
    /\ UNCHANGED <<catalog, remote_ip, registry, local_ip, removed>>

\* ipm info --ip IP
InfoCmd(ip, r) ==
    \E got \in {GetAllIps(r)} :
    /\ call' = [NoCall EXCEPT !.op = "info", !.name = ip]
    /\ resp' = r
    /\ outcome' = got.outcome
    /\ events' = got.events
    /\ table' = IF got.outcome = "returned" THEN InfoRows(got.data, ip) ELSE <<>>
    /\ UNCHANGED <<catalog, remote_ip, registry, local_ip, removed>>

---------------------------------------------------------------------------
(* The environment of the catalog *)

\* The maintainers of the catalog add an entry to a category, between two runs
\* of the program: the objects and the record of the last run are gone.
PublishEntry(i, e) ==
    /\ CountEntries(catalog) < MaxEntries
    /\ catalog' = [catalog EXCEPT ![i].values = Append(@, e)]
    /\ call' = NoCall
    /\ resp' = NoResponse
    /\ outcome' = "none"
    /\ table' = <<>>
    /\ events' = <<>>
    /\ remote_ip' = NoRemoteAttrs
    /\ UNCHANGED <<registry, local_ip, removed>>

---------------------------------------------------------------------------

(* LocalIP *)

LocalAttrs == {"name", "repo", "author", "email", "type", "category", "status",
               "width", "height", "technology", "release", "version", "date", "ip_root"}

\* A LocalIP object after __init__: no record attribute is set.
NoLocalAttrs ==
    [attrs |-> {}, name |-> "", repo |-> "", author |-> "", email |-> "",
     type |-> "", category |-> "", status |-> "", width |-> "", height |-> "",
     technology |-> "", release |-> <<>>, version |-> "", date |-> "", ip_root |-> ""]

\* The registry file: absent, or a JSON object from category to records.
NoFile == [exists |-> FALSE, data |-> <<>>]

EmptyRegistry == [i \in 1..Len(CategoryKeys) |-> [key |-> CategoryKeys[i], values |-> <<>>]]

\* The assignments of lines 101-114 for one matching record, in order: reading
\* value["release"] raises KeyError when the record has no such field, after
\* the ten attributes before it were assigned.
AssignLocal(obj, value) ==
    LET upto == [obj EXCEPT
                    !.attrs = @ \cup {"name", "repo", "author", "email", "type",
                                      "category", "status", "width", "height", "technology"},
                    !.name = value.name, !.repo = value.repo, !.author = value.author,
                    !.email = value.email, !.type = value.type,
                    !.category = value.category, !.status = value.status,
                    !.width = value.width, !.height = value.height,
                    !.technology = value.technology]
    IN IF "release" \in DOMAIN value
       THEN [obj |-> [upto EXCEPT !.attrs = LocalAttrs, !.release = value.release,
                                  !.version = value.version, !.date = value.date,
                                  !.ip_root = value.ip_root],
             raised |-> "none"]
       ELSE [obj |-> upto, raised |-> "KeyError"]

\* The inner loop of lines 99-114; an exception ends the scan.
RECURSIVE ScanLocalValues(_, _, _, _, _)
ScanLocalValues(values, name, technology, ip_root, st) ==
    IF values = <<>> \/ st.raised # "none" THEN st
    ELSE ScanLocalValues(Tail(values), name, technology, ip_root,
            IF /\ Head(values).name = name
               /\ Head(values).technology = technology
               /\ Head(values).ip_root = ip_root
            THEN AssignLocal(st.obj, Head(values))
            ELSE st)

\* The outer loop over data.items().
RECURSIVE ScanLocalItems(_, _, _, _, _)
ScanLocalItems(items, name, technology, ip_root, st) ==
    IF items = <<>> \/ st.raised # "none" THEN st
    ELSE ScanLocalItems(Tail(items), name, technology, ip_root,
            ScanLocalValues(Head(items).values, name, technology, ip_root, st))

\* LocalIP(local_json).get_ip_info(name, ip_root, technology)
LocalGetIpInfo(name, ip_root, technology) ==
    \E st \in {ScanLocalItems(registry.data, name, technology, ip_root,
                               [obj |-> NoLocalAttrs, raised |-> "none"])} :
    /\ call' = [NoCall EXCEPT !.op = "LocalIP.get_ip_info", !.name = name,
                              !.technology = technology, !.ip_root = ip_root]
    /\ IF ~registry.exists
       THEN /\ events' = <<"open">>
            /\ local_ip' = NoLocalAttrs
            /\ outcome' = "FileNotFoundError"
       ELSE /\ events' = <<"open", "read", "parse">>
            /\ local_ip' = st.obj
            /\ outcome' = IF st.raised = "none" THEN "returned" ELSE st.raised
    /\ resp' = NoResponse
    /\ table' = <<>>
    /\ UNCHANGED <<catalog, remote_ip, registry, removed>>

---------------------------------------------------------------------------
(* Version ordering (spec 4.1) *)

\* The dot-separated integer components of a version string.
VersionComponents(v) ==
    CASE v = "1.9" -> <<1, 9>>
      [] v = "1.10" -> <<1, 10>>
      [] v = "0.1" -> <<0, 1>>
      [] OTHER -> <<>>

Component(c, i) == IF i <= Len(c) THEN c[i] ELSE 0

\* a is strictly newer than b: lexicographic by integer component, a missing
\* trailing component counting as zero.
IsNewer(a, b) ==
    LET ca == VersionComponents(a)
        cb == VersionComponents(b)
        n == IF Len(ca) > Len(cb) THEN Len(ca) ELSE Len(cb)
    IN \E i \in 1..n :
          /\ Component(ca, i) > Component(cb, i)
          /\ \A j \in 1..(i - 1) : Component(ca, j) = Component(cb, j)

\* The latest version of a release list: its maximum, whatever its order.
LatestVersion(release) ==
    CHOOSE v \in {release[i].version : i \in 1..Len(release)} :
        \A i \in 1..Len(release) : ~IsNewer(release[i].version, v)

---------------------------------------------------------------------------
(* Install and uninstall (spec 4.3, 4.4) *)

InstallDate == "2023-06-01T00:00:00Z"

\* The record an install writes: the persisted registry format.
InstalledRecord(d, version, ip_root) ==
    [name |-> d.name, repo |-> d.repo, author |-> d.author, email |-> d.email,
     type |-> d.type, category |-> d.category, status |-> d.status,
     width |-> d.width, height |-> d.height, technology |-> d.technology,
     version |-> version, date |-> InstallDate, ip_root |-> ip_root]

\* RegistryService.load: a missing file is an empty registry.
Load(file) == IF file.exists THEN file.data ELSE EmptyRegistry

Matches(rec, name, technology, ip_root) ==
    rec.name = name /\ rec.technology = technology /\ rec.ip_root = ip_root

\* All records of a registry, in order.
RECURSIVE Records(_)
Records(items) ==
    IF items = <<>> THEN <<>>
    ELSE Head(items).values \o Records(Tail(items))

\* RegistryService.findRecord: the records matching all three keys.
FindRecord(items, name, technology, ip_root) ==
    SelectSeq(Records(items), LAMBDA rec : Matches(rec, name, technology, ip_root))

\* RemoveRecord with the slip of looking in the first category only.
RemoveFromFirstCategory(items, name, technology, ip_root) ==
    [i \in 1..Len(items) |->
        IF i = 1
        THEN [items[i] EXCEPT !.values =
                SelectSeq(@, LAMBDA rec : ~(rec.name = name /\ rec.technology = technology
                                            /\ rec.ip_root = ip_root))]
        ELSE items[i]]

\* The registry without the record of (name, technology, ip_root).
RemoveRecord(items, name, technology, ip_root) ==
    [i \in 1..Len(items) |->
        [items[i] EXCEPT !.values =
            SelectSeq(@, LAMBDA rec : ~Matches(rec, name, technology, ip_root))]]

\* WriteRecord with the slip of appending without removing the prior record.
AppendRecord(items, rec) ==
    [i \in 1..Len(items) |->
        IF items[i].key = rec.category
        THEN [items[i] EXCEPT !.values = Append(@, rec)]
        ELSE items[i]]

\* The registry with rec written: it replaces the record of the same
\* coordinates, in the list of its category.
WriteRecord(items, rec) ==
    LET rest == RemoveRecord(items, rec.name, rec.technology, rec.ip_root)
    IN [i \in 1..Len(rest) |->
          IF rest[i].key = rec.category
          THEN [rest[i] EXCEPT !.values = Append(@, rec)]
          ELSE rest[i]]

\* What explicit version a request may name: none (""), or a version.
RequestedVersions == {"", "1.9", "0.1"}

\* FileAfterDownload with the slip of writing the record whatever the
\* download/extract step reported.
WriteBeforeDownload(io_ok, items, rec) ==
    [exists |-> TRUE, data |-> WriteRecord(items, rec)]

\* The registry file after the download/extract step of an install: the
\* record is written only once that step has reported success.
FileAfterDownload(io_ok, items, rec) ==
    IF io_ok THEN [exists |-> TRUE, data |-> WriteRecord(items, rec)] ELSE registry

\* The decision sequence of an install request: its descriptor is the one a
\* fresh RemoteIP object finds in the catalog.  How the request ends, and the
\* registry file it leaves.
InstallResult(name, technology, version, overwrite, ip_root, io_ok) ==
    LET d == ScanItems(catalog, name, technology, NoRemoteAttrs)
        items == Load(registry)
        target == IF version = "" THEN LatestVersion(d.release) ELSE version
        prior == FindRecord(items, name, technology, ip_root)
    IN IF d.attrs = {}
       THEN [outcome |-> "UnknownIP", file |-> registry, events |-> <<"fetch">>]
       ELSE IF \A i \in 1..Len(d.release) : d.release[i].version # target
       THEN [outcome |-> "UnknownVersion", file |-> registry, events |-> <<"fetch">>]
       ELSE IF prior # <<>> /\ prior[1].version = target /\ ~overwrite
       THEN [outcome |-> "AlreadyInstalled", file |-> registry, events |-> <<"fetch", "read">>]
       ELSE IF ~io_ok
       THEN [outcome |-> "DownloadFailed",
             file |-> FileAfterDownload(io_ok, items, InstalledRecord(d, target, ip_root)),
             events |-> <<"fetch", "read", "download">>]
       ELSE [outcome |-> IF prior = <<>> THEN "installed" ELSE "reinstalled",
             file |-> FileAfterDownload(io_ok, items, InstalledRecord(d, target, ip_root)),
             events |-> <<"fetch", "read", "download", "write">>]

\* ipm install IP [--technology T] [--version V] [--ip-root R] [--overwrite]
Install(name, technology, version, overwrite, ip_root, io_ok) ==
    \E res \in {InstallResult(name, technology, version, overwrite, ip_root, io_ok)} :
    /\ Len(Records(Load(res.file))) <= MaxRecords
    /\ call' = [NoCall EXCEPT !.op = "install", !.name = name,
                              !.technology = technology, !.ip_root = ip_root,
                              !.version = version]
    /\ registry' = res.file
    /\ outcome' = res.outcome
    /\ events' = res.events
    /\ removed' = IF /\ res.outcome \in {"installed", "reinstalled"}
                     /\ removed = [name |-> name, technology |-> technology, ip_root |-> ip_root]
                  THEN NoCoordinates
                  ELSE removed
    /\ local_ip' = NoLocalAttrs
    /\ resp' = NoResponse
    /\ table' = <<>>
    /\ UNCHANGED <<catalog, remote_ip>>

\* How an uninstall request ends, and the registry file it leaves.
UninstallResult(name, technology, ip_root, io_ok) ==
    LET items == Load(registry)
    IN IF FindRecord(items, name, technology, ip_root) = <<>>
       THEN [outcome |-> "NotInstalled", file |-> registry, events |-> <<"read">>]
       ELSE IF ~io_ok
       THEN [outcome |-> "FilesystemError", file |-> registry, events |-> <<"read", "rmtree">>]
       ELSE [outcome |-> "uninstalled",
             file |-> [exists |-> TRUE,
                       data |-> RemoveRecord(items, name, technology, ip_root)],
             events |-> <<"read", "rmtree", "write">>]

\* ipm uninstall IP [--technology T] [--ip-root R]
Uninstall(name, technology, ip_root, io_ok) ==
    \E res \in {UninstallResult(name, technology, ip_root, io_ok)} :
    /\ call' = [NoCall EXCEPT !.op = "uninstall", !.name = name,
                              !.technology = technology, !.ip_root = ip_root]
    /\ registry' = res.file
    /\ outcome' = res.outcome
    /\ events' = res.events
    /\ removed' = IF res.outcome = "uninstalled"
                  THEN [name |-> name, technology |-> technology, ip_root |-> ip_root]
                  ELSE removed
    /\ local_ip' = NoLocalAttrs
    /\ resp' = NoResponse
    /\ table' = <<>>
    /\ UNCHANGED <<catalog, remote_ip>>

---------------------------------------------------------------------------
(* Specifications *)

Init ==
    /\ catalog = EmptyCatalog
    /\ remote_ip = NoRemoteAttrs
    /\ registry = NoFile
    /\ local_ip = NoLocalAttrs
    /\ call = NoCall
    /\ resp = NoResponse
    /\ outcome = "none"
    /\ table = <<>>
    /\ events = <<>>
    /\ removed = NoCoordinates

\* A catalog with two IPs published; the second one's 1.9 came out after its
\* 1.10.
PublishedCatalog ==
    LET rel(s) == [i \in 1..Len(s) |-> [version |-> s[i], date |-> ReleaseDates[i]]]
    IN [EmptyCatalog EXCEPT
          ![1].values = <<Descriptor("spm", "sky130", rel(<<"1.9", "1.10">>))>>,
          ![2].values = <<Descriptor("SPM", "gf180mcu", rel(<<"1.10", "1.9">>))>>]

InitRegistry ==
    /\ catalog = PublishedCatalog
    /\ remote_ip = NoRemoteAttrs
    /\ registry = NoFile
    /\ local_ip = NoLocalAttrs
    /\ call = NoCall
    /\ resp = NoResponse
    /\ outcome = "none"
    /\ table = <<>>
    /\ events = <<>>
    /\ removed = NoCoordinates

Publish == \E i \in 1..Len(CategoryKeys), e \in Entries : PublishEntry(i, e)

\* Lookups in the catalog through one RemoteIP object.
NextLookup ==
    \/ Publish
    \/ \E name \in Names, technology \in RequestedTechnologies, r \in Responses :
            RemoteGetIpInfo(name, technology, r)

\* The commands that list the catalog.
NextListing ==
    \/ Publish
    \/ \E r \in Responses : LsRemoteCmd(r)
    \/ \E ip \in Names, r \in Responses : InfoCmd(ip, r)

\* The registry: installs, uninstalls and lookups.
NextRegistry ==
    \/ \E name \in Names, technology \in Technologies, version \in RequestedVersions,
          overwrite \in BOOLEAN, ip_root \in IpRoots, io_ok \in BOOLEAN :
            Install(name, technology, version, overwrite, ip_root, io_ok)
    \/ \E name \in Names, technology \in Technologies, ip_root \in IpRoots,
          io_ok \in BOOLEAN :
            Uninstall(name, technology, ip_root, io_ok)
    \/ \E name \in Names, ip_root \in IpRoots, technology \in RequestedTechnologies :
            LocalGetIpInfo(name, ip_root, technology)

Next == NextLookup \/ NextListing \/ NextRegistry

Spec == Init /\ [][Next]_vars

SpecLookup == Init /\ [][NextLookup]_vars

SpecListing == Init /\ [][NextListing]_vars

SpecRegistry == InitRegistry /\ [][NextRegistry]_vars

---------------------------------------------------------------------------
(* Properties *)

Has(seq, x) == \E i \in 1..Len(seq) : seq[i] = x

\* The entries of the catalog matching the last call, in category iteration
\* order and then list order.
CatalogMatches ==
    SelectSeq(Records(catalog),
              LAMBDA e : e.name = call.name /\ e.technology = call.technology)

\* The records of the registry matching the last call.
RegistryMatches == FindRecord(Load(registry), call.name, call.technology, call.ip_root)

CallCoordinates == [name |-> call.name, technology |-> call.technology, ip_root |-> call.ip_root]

\* C1: when several entries of the catalog have the requested (name,
\* technology), RemoteIP.get_ip_info yields the first one in category
\* iteration order and then list order; a later match never replaces it.
C1_FirstMatchWins ==
    (call.op = "RemoteIP.get_ip_info" /\ outcome = "returned" /\ CatalogMatches # <<>>)
        => remote_ip = AssignRemote(CatalogMatches[1])

\* C2: RemoteIP.get_ip_info yields a descriptor only when an entry has exactly
\* the requested name and technology, and none when no entry matches: after
\* any sequence of lookups, a lookup for an absent (name, technology) does not
\* report the descriptor of another IP.
C2_AbsentYieldsNone ==
    (call.op = "RemoteIP.get_ip_info" /\ outcome = "returned")
        => /\ CatalogMatches = <<>> => remote_ip.attrs = {}
           /\ remote_ip.attrs # {} =>
                remote_ip.name = call.name /\ remote_ip.technology = call.technology

\* C3: on a registry in the persisted format, LocalIP.get_ip_info returns the
\* record whose name, technology and ip_root equal the requested ones, none
\* when no record matches, and never fails on a record that is present.
C3_FindRecordReturnsRecord ==
    (call.op = "LocalIP.get_ip_info" /\ registry.exists)
        => /\ outcome = "returned"
           /\ IF RegistryMatches = <<>>
              THEN local_ip.attrs = {}
              ELSE /\ local_ip.name = RegistryMatches[1].name
                   /\ local_ip.technology = RegistryMatches[1].technology
                   /\ local_ip.ip_root = RegistryMatches[1].ip_root
                   /\ local_ip.version = RegistryMatches[1].version
                   /\ local_ip.date = RegistryMatches[1].date

\* C4: a lookup when the registry file does not exist sees an empty registry:
\* it returns none and is not an error.
C4_MissingRegistryIsEmpty ==
    (call.op = "LocalIP.get_ip_info" /\ ~registry.exists)
        => outcome = "returned" /\ local_ip.attrs = {}

\* C5: a catalog fetch answered with any status other than success ends in
\* the catalog-unavailable outcome (the message and exit(1)), in every
\* operation that fetches; its body is never parsed or used as a catalog.
C5_NonSuccessIsUnavailable ==
    (call.op \in {"ls-remote", "info", "RemoteIP.get_ip_info"} /\ resp.status_code # 200)
        => outcome = "exit(1)" /\ ~Has(events, "parse") /\ table = <<>>

\* C6: the Release column of the remote listing shows, for every entry, the
\* maximum of its release history under componentwise integer ordering,
\* whatever the order of the release list.
C6_ReleaseColumnIsMaximum ==
    (call.op = "ls-remote" /\ outcome = "returned")
        => /\ Len(table) = Len(Records(catalog))
           /\ \A i \in 1..Len(table) :
                table[i].release = LatestVersion(Records(catalog)[i].release)

C10_InvalidTechnologyRejectedFirst ==
    (call.op \in {"RemoteIP.get_ip_info", "LocalIP.get_ip_info"}
     /\ call.technology \notin Technologies)
        => /\ outcome = "rejected"
           /\ ~Has(events, "fetch") /\ ~Has(events, "open")

\* C11: a RemoteIP.get_ip_info call whose (name, technology) matches no entry
\* of the catalog leaves every attribute of the object as it was before the
\* call; a call that matches leaves versions and dates as long as release,
\* with versions[i] and dates[i] those of release[i].
C11_MissKeepsAttributes ==
    [][call'.op = "RemoteIP.get_ip_info" =>
        LET hit == \E e \in {Records(catalog)[i] : i \in 1..Len(Records(catalog))} :
                        e.name = call'.name /\ e.technology = call'.technology
        IN /\ ~hit => remote_ip' = remote_ip
           /\ (hit /\ outcome' = "returned") =>
                /\ remote_ip'.name = call'.name
                /\ remote_ip'.technology = call'.technology
                /\ Len(remote_ip'.versions) = Len(remote_ip'.release)
                /\ Len(remote_ip'.dates) = Len(remote_ip'.release)
                /\ \A i \in 1..Len(remote_ip'.release) :
                        /\ remote_ip'.versions[i] = remote_ip'.release[i].version
                        /\ remote_ip'.dates[i] = remote_ip'.release[i].date]_vars

\* C11 happens: a lookup without a match returned on an object that holds the
\* descriptor of an earlier lookup.
C11_MissOnFilledObject ==
    /\ call.op = "RemoteIP.get_ip_info" /\ outcome = "returned"
    /\ CatalogMatches = <<>>
    /\ remote_ip.attrs = RemoteAttrs
    /\ Len(remote_ip.versions) = Cardinality(Versions)

\* The releases the catalog holds under the name of the last command, each as
\* <<category index, entry index, release index>>.
NamedReleases ==
    {<<c, e, r>> \in (1..Len(catalog)) \X (1..MaxEntries) \X (1..Cardinality(Versions)) :
        /\ e <= Len(catalog[c].values)
        /\ catalog[c].values[e].name = call.name
        /\ r <= Len(catalog[c].values[e].release)}

\* Category order, then entry order, then release-list order.
Precedes(u, t) ==
    \/ u[1] < t[1]
    \/ u[1] = t[1] /\ u[2] < t[2]
    \/ u[1] = t[1] /\ u[2] = t[2] /\ u[3] < t[3]

\* C12: the info command for a name prints exactly one row per release of
\* every entry of the catalog with that name, whatever its category and
\* technology, in category order, then entry order, then release-list order,
\* and no row of an entry with another name; the catalog it prints is the one
\* it fetched in this invocation.
C12_InfoRowsPerRelease ==
    (call.op = "info" /\ outcome = "returned") =>
        /\ events[1] = "fetch"
        /\ Len(table) = Cardinality(NamedReleases)
        /\ \A t \in NamedReleases :
            LET k == Cardinality({u \in NamedReleases : Precedes(u, t)}) + 1
                value == catalog[t[1]].values[t[2]]
            IN table[k] = [category |-> catalog[t[1]].key, name |-> call.name,
                           release |-> value.release[t[3]].version,
                           author |-> value.author,
                           date |-> value.release[t[3]].date,
                           type |-> value.type, status |-> value.status,
                           width |-> value.width, height |-> value.height,
                           technology |-> value.technology]

\* C12 happens: an info command printed the releases of two entries of one
\* name, in two categories and two technologies.
C12_InfoAcrossCategories ==
    /\ call.op = "info" /\ outcome = "returned"
    /\ Len(table) = 2 * Cardinality(Versions)
    /\ table[1].category # table[Len(table)].category
    /\ table[1].technology # table[Len(table)].technology

=============================================================================
